---------------------------- MODULE Spec2Model ----------------------------
(***************************************************************************)
(* A model of seaflog: the EventScanner that turns a SeaFlow V1 instrument  *)
(* log into events, the pure helpers around it and the TsdataWriter that    *)
(* renders events as TSDATA rows (src/seaflog.go), and the loop of the      *)
(* command that joins them (src/cmd/seaflog/main.go).                       *)
(*                                                                          *)
(* Text is modelled by TLA+ strings, a character being a string of length   *)
(* one.  A time.Time is modelled by the instant it denotes and the zone     *)
(* offset it is shown at: the record [d |-> days since 0001-01-01 UTC,      *)
(* s |-> second of that day, off |-> seconds east of UTC]; the zero         *)
(* time.Time is 0001-01-01T00:00:00Z, that is [d |-> 0, s |-> 0, off |-> 0].*)
(***************************************************************************)
EXTENDS Integers, Sequences, FiniteSets, TLC

(***************************************************************************)
(* Text helpers (package strings).                                          *)
(***************************************************************************)
Char(s, k) == SubSeq(s, k, k)

Digits == {"0", "1", "2", "3", "4", "5", "6", "7", "8", "9"}

DigitVal(c) ==
    CASE c = "0" -> 0 [] c = "1" -> 1 [] c = "2" -> 2 [] c = "3" -> 3
      [] c = "4" -> 4 [] c = "5" -> 5 [] c = "6" -> 6 [] c = "7" -> 7
      [] c = "8" -> 8 [] c = "9" -> 9

\* every character of s[from..to] is a decimal digit (regexp \d)
AllDigits(s, from, to) == \A k \in from..to : Char(s, k) \in Digits

RECURSIVE NumVal(_)
\* the number a string of decimal digits denotes
NumVal(s) ==
    IF Len(s) = 0 THEN 0
    ELSE 10 * NumVal(SubSeq(s, 1, Len(s) - 1)) + DigitVal(Char(s, Len(s)))

\* strings.HasPrefix
HasPrefix(s, prefix) ==
    /\ Len(prefix) <= Len(s)
    /\ SubSeq(s, 1, Len(prefix)) = prefix

\* strings.Index for a one-character separator: 0 when absent
IndexOf(s, c) ==
    IF \E k \in 1..Len(s) : Char(s, k) = c
    THEN CHOOSE k \in 1..Len(s) :
            /\ Char(s, k) = c
            /\ \A j \in 1..(k - 1) : Char(s, j) # c
    ELSE 0

\* strings.SplitN(s, sep, 2): one part when sep is absent, else two
SplitN2(s, sep) ==
    LET k == IndexOf(s, sep) IN
    IF k = 0 THEN <<s>>
    ELSE <<SubSeq(s, 1, k - 1), SubSeq(s, k + 1, Len(s))>>

WhiteSpace == {" ", "\t", "\r", "\n"}

RECURSIVE TrimLeft(_)
TrimLeft(s) ==
    IF Len(s) > 0 /\ Char(s, 1) \in WhiteSpace
    THEN TrimLeft(SubSeq(s, 2, Len(s)))
    ELSE s

RECURSIVE TrimRight(_)
TrimRight(s) ==
    IF Len(s) > 0 /\ Char(s, Len(s)) \in WhiteSpace
    THEN TrimRight(SubSeq(s, 1, Len(s) - 1))
    ELSE s

\* strings.TrimSpace
TrimSpace(s) == TrimRight(TrimLeft(s))

(***************************************************************************)
(* Errors are modelled by their message; nil is the absent error.           *)
(***************************************************************************)
nil == "nil"

(***************************************************************************)
(* time.Time.                                                               *)
(***************************************************************************)
ZeroTime == [d |-> 0, s |-> 0, off |-> 0]

IsZero(tm) == tm.d = 0 /\ tm.s = 0

Before(a, b) == a.d < b.d \/ (a.d = b.d /\ a.s < b.s)

After(a, b) == Before(b, a)

Equal(a, b) == a.d = b.d /\ a.s = b.s

IsLeap(y) == y % 4 = 0 /\ (y % 100 # 0 \/ y % 400 = 0)

DaysIn(m, y) ==
    IF m = 2 THEN (IF IsLeap(y) THEN 29 ELSE 28)
    ELSE IF m \in {4, 6, 9, 11} THEN 30 ELSE 31

RECURSIVE DaysBeforeMonth(_, _)
DaysBeforeMonth(m, y) ==
    IF m <= 1 THEN 0 ELSE DaysBeforeMonth(m - 1, y) + DaysIn(m - 1, y)

\* days from 0001-01-01 to the given civil date (proleptic Gregorian)
DaysSinceEpoch(y, m, dd) ==
    365 * (y - 1) + ((y - 1) \div 4) - ((y - 1) \div 100) + ((y - 1) \div 400)
        + DaysBeforeMonth(m, y) + (dd - 1)

\* the instant of a civil date and time of day at a zone offset (seconds)
Date(y, m, dd, hh, mi, ss, offset) ==
    LET total == hh * 3600 + mi * 60 + ss - offset IN
    [d |-> DaysSinceEpoch(y, m, dd) + (total \div 86400), s |-> total % 86400,
     off |-> offset]

\* the year, month and day of the day `days` after 0001-01-01
YearOf(days) ==
    LET guess == ((days * 400) \div 146097) + 1 IN
    CHOOSE y \in (guess - 1)..(guess + 1) :
        DaysSinceEpoch(y, 1, 1) <= days /\ days < DaysSinceEpoch(y + 1, 1, 1)

MonthOf(days) ==
    LET y == YearOf(days) IN
    CHOOSE m \in 1..12 :
        /\ DaysSinceEpoch(y, m, 1) <= days
        /\ days < DaysSinceEpoch(y, m, 1) + DaysIn(m, y)

DayOf(days) == days - DaysSinceEpoch(YearOf(days), MonthOf(days), 1) + 1

\* a decimal digit as text, and a number zero-padded to two and four digits
DigitStr(n) == Char("0123456789", n + 1)

Pad2(n) == DigitStr((n \div 10) % 10) \o DigitStr(n % 10)

Pad4(n) == Pad2(n \div 100) \o Pad2(n % 100)

\* Time.Format("2006-01-02T15:04:05-07:00"): the civil date and time of day
\* in the time's zone, then the numeric zone offset (never "Z")
Format(tm) ==
    LET local == tm.s + tm.off
        days == tm.d + (local \div 86400)
        secs == local % 86400
        zone == IF tm.off < 0 THEN 0 - tm.off ELSE tm.off
    IN  Pad4(YearOf(days)) \o "-" \o Pad2(MonthOf(days)) \o "-" \o Pad2(DayOf(days))
            \o "T" \o Pad2(secs \div 3600) \o ":" \o Pad2((secs \div 60) % 60)
            \o ":" \o Pad2(secs % 60)
            \o (IF tm.off < 0 THEN "-" ELSE "+")
            \o Pad2(zone \div 3600) \o ":" \o Pad2((zone \div 60) % 60)

(***************************************************************************)
(* time.Parse(time.RFC3339, text), for the second-resolution layouts        *)
(* "2006-01-02T15:04:05Z" and "2006-01-02T15:04:05-07:00".  The result is   *)
(* [ok |-> parsed, t |-> the instant].                                      *)
(***************************************************************************)
RFC3339Shape(s) ==
    /\ Len(s) \in {20, 25}
    /\ AllDigits(s, 1, 4) /\ Char(s, 5) = "-"
    /\ AllDigits(s, 6, 7) /\ Char(s, 8) = "-"
    /\ AllDigits(s, 9, 10) /\ Char(s, 11) = "T"
    /\ AllDigits(s, 12, 13) /\ Char(s, 14) = ":"
    /\ AllDigits(s, 15, 16) /\ Char(s, 17) = ":"
    /\ AllDigits(s, 18, 19)
    /\ IF Len(s) = 20 THEN Char(s, 20) = "Z"
       ELSE /\ Char(s, 20) \in {"+", "-"}
            /\ AllDigits(s, 21, 22) /\ Char(s, 23) = ":"
            /\ AllDigits(s, 24, 25)

RFC3339InRange(s) ==
    LET y == NumVal(SubSeq(s, 1, 4))
        m == NumVal(SubSeq(s, 6, 7))
        dd == NumVal(SubSeq(s, 9, 10))
    IN  /\ m \in 1..12
        /\ dd \in 1..DaysIn(m, y)
        /\ NumVal(SubSeq(s, 12, 13)) <= 23
        /\ NumVal(SubSeq(s, 15, 16)) <= 59
        /\ NumVal(SubSeq(s, 18, 19)) <= 59
        /\ Len(s) = 25 =>
              /\ NumVal(SubSeq(s, 21, 22)) <= 23
              /\ NumVal(SubSeq(s, 24, 25)) <= 59

RFC3339Instant(s) ==
    LET zone == IF Len(s) = 20 THEN 0
                ELSE (NumVal(SubSeq(s, 21, 22)) * 60
                        + NumVal(SubSeq(s, 24, 25))) * 60
        offset == IF Len(s) = 25 /\ Char(s, 20) = "-" THEN 0 - zone ELSE zone
    IN  Date(NumVal(SubSeq(s, 1, 4)), NumVal(SubSeq(s, 6, 7)),
             NumVal(SubSeq(s, 9, 10)), NumVal(SubSeq(s, 12, 13)),
             NumVal(SubSeq(s, 15, 16)), NumVal(SubSeq(s, 18, 19)), offset)

ParseRFC3339(s) ==
    IF RFC3339Shape(s) /\ RFC3339InRange(s)
    THEN [ok |-> TRUE, t |-> RFC3339Instant(s)]
    ELSE [ok |-> FALSE, t |-> ZeroTime]

(***************************************************************************)
(* timeExpr, the log file's timestamp grammar                               *)
(*   ^\d{4}-\d{2}-\d{2}T\d{2}-\d{2}-\d{2}[+-]\d{2}-\d{2}$                   *)
(* and timeExpr.ReplaceAllString(text, "${date}T${h}:${m}:${s}${tzh}:${tzm}")*)
(* which rewrites a text the anchored pattern matches and returns any other *)
(* text unchanged.                                                          *)
(***************************************************************************)
timeExpr(s) ==
    /\ Len(s) = 25
    /\ AllDigits(s, 1, 4) /\ Char(s, 5) = "-"
    /\ AllDigits(s, 6, 7) /\ Char(s, 8) = "-"
    /\ AllDigits(s, 9, 10) /\ Char(s, 11) = "T"
    /\ AllDigits(s, 12, 13) /\ Char(s, 14) = "-"
    /\ AllDigits(s, 15, 16) /\ Char(s, 17) = "-"
    /\ AllDigits(s, 18, 19) /\ Char(s, 20) \in {"+", "-"}
    /\ AllDigits(s, 21, 22) /\ Char(s, 23) = "-"
    /\ AllDigits(s, 24, 25)

ReplaceAllString(s) ==
    IF timeExpr(s)
    THEN SubSeq(s, 1, 10) \o "T" \o SubSeq(s, 12, 13) \o ":" \o SubSeq(s, 15, 16)
            \o ":" \o SubSeq(s, 18, 19) \o SubSeq(s, 20, 22) \o ":" \o SubSeq(s, 24, 25)
    ELSE s

(***************************************************************************)
(* parseTimestamp: [t |-> time, err |-> error].  As in the source, the      *)
(* error returned on the tstamp == text branch is the error of time.Parse,  *)
(* which is nil when text itself is an RFC3339 timestamp.                   *)
(***************************************************************************)
parseTimestamp(text) ==
    LET tstamp == ReplaceAllString(text)
        p == ParseRFC3339(tstamp)
        err == IF p.ok THEN nil ELSE "parsing time"
    IN  IF err # nil \/ tstamp = text
        THEN [t |-> ZeroTime, err |-> err]
        ELSE [t |-> p.t, err |-> nil]


(***************************************************************************)
(* strconv.ParseFloat(s, 64) for decimal literals [+-]digits[.digits]; any  *)
(* other text is a syntax error.  A float64 is modelled by the decimal      *)
(* number it was read from, [m |-> mantissa, e |-> decimal exponent],       *)
(* normalised so that equal numbers are equal records.                      *)
(***************************************************************************)
RECURSIVE NormFloat(_, _)
NormFloat(m, e) ==
    IF m = 0 THEN [m |-> 0, e |-> 0]
    ELSE IF e < 0 /\ m % 10 = 0 THEN NormFloat(m \div 10, e + 1)
    ELSE [m |-> m, e |-> e]

ParseFloat(s) ==
    LET signed == Len(s) > 0 /\ Char(s, 1) \in {"+", "-"}
        neg == Len(s) > 0 /\ Char(s, 1) = "-"
        body == IF signed THEN SubSeq(s, 2, Len(s)) ELSE s
        dot == IndexOf(body, ".")
        int == IF dot = 0 THEN body ELSE SubSeq(body, 1, dot - 1)
        frac == IF dot = 0 THEN "" ELSE SubSeq(body, dot + 1, Len(body))
        ok == /\ Len(int) + Len(frac) > 0
              /\ AllDigits(int, 1, Len(int))
              /\ AllDigits(frac, 1, Len(frac))
        mant == NumVal(int \o frac)
    IN  IF ok
        THEN [f |-> NormFloat(IF neg THEN 0 - mant ELSE mant, 0 - Len(frac)),
              err |-> nil]
        ELSE [f |-> [m |-> 0, e |-> 0], err |-> "invalid syntax"]

(***************************************************************************)
(* Event.Value is an interface{} holding a float64, a string, a bool or     *)
(* nothing: a tagged record.                                                *)
(***************************************************************************)
NilValue == [kind |-> "nil", f |-> [m |-> 0, e |-> 0], s |-> "", b |-> FALSE]

FloatValue(f) == [kind |-> "float", f |-> f, s |-> "", b |-> FALSE]

TextValue(s) == [kind |-> "text", f |-> [m |-> 0, e |-> 0], s |-> s, b |-> FALSE]

BoolValue(b) == [kind |-> "bool", f |-> [m |-> 0, e |-> 0], s |-> "", b |-> b]

\* Event{Time: t, Line: line, LineNumber: lineNumber}
Event(line, tm, lineNumber) ==
    [Name |-> "", Type |-> "", Line |-> line, Value |-> NilValue,
     Time |-> tm, LineNumber |-> lineNumber, Error |-> nil]

\* The zero Event{}
NoEvent == Event("", ZeroTime, 0)

(***************************************************************************)
(* Definition tables: EventDefs, keyed by name.  GoodDefs has valid value   *)
(* actions and prefixes that are disjoint across definitions.  OddDefs adds *)
(* what the JSON loader does not rule out: a definition whose prefix is a   *)
(* prefix of another definition's, and a form with an unknown value action. *)
(***************************************************************************)
EventForm(startsWith, valueAction) ==
    [StartsWith |-> startsWith, ValueAction |-> valueAction]

EventDef(name, type, forms) ==
    [Name |-> name, Type |-> type, EventForms |-> forms]

GoodDefs ==
    [n \in {"PMT1", "comment", "laser", "file"} |->
        CASE n = "PMT1" -> EventDef(n, "float", <<EventForm("PMT1", "as_float")>>)
          [] n = "comment" -> EventDef(n, "text", <<EventForm("Comment", "as_text")>>)
          [] n = "laser" -> EventDef(n, "boolean",
                                <<EventForm("Laser on", "as_true"),
                                  EventForm("Laser off", "as_false")>>)
          [] n = "file" -> EventDef(n, "text", <<EventForm("File", "as_identity")>>)]

OddDefs ==
    [n \in DOMAIN GoodDefs \cup {"PMT", "bad"} |->
        CASE n = "PMT" -> EventDef(n, "text", <<EventForm("PMT", "as_identity")>>)
          [] n = "bad" -> EventDef(n, "text", <<EventForm("Bad", "as_int")>>)
          [] OTHER -> GoodDefs[n]]

ValueActions == {"as_float", "as_text", "as_true", "as_false", "as_identity"}

\* every form of the table has a known value action
ValidDefs(table) ==
    \A n \in DOMAIN table : \A k \in 1..Len(table[n].EventForms) :
        table[n].EventForms[k].ValueAction \in ValueActions

(***************************************************************************)
(* CreateEvent.  The outer loop ranges over a Go map, whose iteration order *)
(* is unspecified: any definition that has a form matching the line can be  *)
(* the one reached first, and within it the first matching form is taken.   *)
(* The operator is the set of possible results [event, err]; edef and eform *)
(* record the definition and value action that were matched ("" if none).   *)
(***************************************************************************)
Matches(edef, line) ==
    \E k \in 1..Len(edef.EventForms) : HasPrefix(line, edef.EventForms[k].StartsWith)

FirstMatch(edef, line) ==
    edef.EventForms[CHOOSE k \in 1..Len(edef.EventForms) :
        /\ HasPrefix(line, edef.EventForms[k].StartsWith)
        /\ \A j \in 1..(k - 1) : ~HasPrefix(line, edef.EventForms[j].StartsWith)]

\* ApplyValueAction without the `len(parts) < 2` checks: a line without
\* separator is decoded from its one part
ApplyValueActionNoSepCheck(event, valueAction) ==
    LET parts == SplitN2(event.Line, ":")
        last == parts[Len(parts)]
        f == ParseFloat(TrimSpace(last))
    IN  CASE valueAction = "as_float" ->
                IF f.err # nil
                THEN [event |-> [event EXCEPT !.Error = f.err], err |-> nil]
                ELSE [event |-> [event EXCEPT !.Value = FloatValue(f.f)], err |-> nil]
          [] valueAction = "as_text" ->
                [event |-> [event EXCEPT !.Value = TextValue(TrimSpace(last))],
                 err |-> nil]
          [] valueAction = "as_true" ->
                [event |-> [event EXCEPT !.Value = BoolValue(TRUE)], err |-> nil]
          [] valueAction = "as_false" ->
                [event |-> [event EXCEPT !.Value = BoolValue(FALSE)], err |-> nil]
          [] valueAction = "as_identity" ->
                [event |-> [event EXCEPT !.Value = TextValue(event.Line)], err |-> nil]
          [] OTHER ->
                [event |-> event, err |-> "invalid ValueAction in event defintiion"]

\* the switch on eform.ValueAction, applied to the event named after edef
ApplyValueAction(event, valueAction) ==
    LET parts == SplitN2(event.Line, ":")
        f == ParseFloat(TrimSpace(parts[2]))
    IN  CASE valueAction = "as_float" ->
                IF Len(parts) < 2
                THEN [event |-> [event EXCEPT !.Error = "missing expected separator ':'"],
                      err |-> nil]
                ELSE IF f.err # nil
                THEN [event |-> [event EXCEPT !.Error = f.err], err |-> nil]
                ELSE [event |-> [event EXCEPT !.Value = FloatValue(f.f)], err |-> nil]
          [] valueAction = "as_text" ->
                IF Len(parts) < 2
                THEN [event |-> [event EXCEPT !.Error = "missing expected separator ':'"],
                      err |-> nil]
                ELSE [event |-> [event EXCEPT !.Value = TextValue(TrimSpace(parts[2]))],
                      err |-> nil]
          [] valueAction = "as_true" ->
                [event |-> [event EXCEPT !.Value = BoolValue(TRUE)], err |-> nil]
          [] valueAction = "as_false" ->
                [event |-> [event EXCEPT !.Value = BoolValue(FALSE)], err |-> nil]
          [] valueAction = "as_identity" ->
                [event |-> [event EXCEPT !.Value = TextValue(event.Line)], err |-> nil]
          [] OTHER ->
                [event |-> event, err |-> "invalid ValueAction in event defintiion"]

\* the event of a line read before any timestamp
NoTimeEvent(event) == [event EXCEPT !.Error = "event with no time set"]

\* Unhandled without `event.Value = event.Line`
UnhandledNoValue(event) ==
    [event EXCEPT !.Error = "unrecognized event",
                  !.Name = "unhandled",
                  !.Type = "text"]

\* the event of a line no form matched
Unhandled(event) ==
    [event EXCEPT !.Error = "unrecognized event",
                  !.Name = "unhandled",
                  !.Type = "text",
                  !.Value = TextValue(event.Line)]

\* CreateEvent whose loops can also end without reaching the matching form
CreateEventMayMiss(line, tm, lineNumber, table) ==
    LET event == Event(line, tm, lineNumber) IN
    IF IsZero(event.Time)
    THEN {[event |-> NoTimeEvent(event), err |-> nil, edef |-> "", eform |-> ""]}
    ELSE {LET eform == FirstMatch(table[n], line)
              r == ApplyValueAction([event EXCEPT !.Name = table[n].Name,
                                                  !.Type = table[n].Type],
                                    eform.ValueAction)
          IN  [event |-> r.event, err |-> r.err, edef |-> n,
               eform |-> eform.ValueAction] :
            n \in {m \in DOMAIN table : Matches(table[m], line)}}
         \cup {[event |-> Unhandled(event), err |-> nil, edef |-> "", eform |-> ""]}

CreateEvent(line, tm, lineNumber, table) ==
    LET event == Event(line, tm, lineNumber) IN
    IF IsZero(event.Time)
    THEN {[event |-> NoTimeEvent(event), err |-> nil, edef |-> "", eform |-> ""]}
    ELSE IF \E n \in DOMAIN table : Matches(table[n], line)
    THEN {LET eform == FirstMatch(table[n], line)
              r == ApplyValueAction([event EXCEPT !.Name = table[n].Name,
                                                  !.Type = table[n].Type],
                                    eform.ValueAction)
          IN  [event |-> r.event, err |-> r.err, edef |-> n,
               eform |-> eform.ValueAction] :
            n \in {m \in DOMAIN table : Matches(table[m], line)}}
    ELSE {[event |-> Unhandled(event), err |-> nil, edef |-> "", eform |-> ""]}

(***************************************************************************)
(* TimeFilter and UnhandledToNote.                                          *)
(***************************************************************************)
\* TimeFilter with exclusive bounds (After and Before alone)
TimeFilterExclusive(event, earliest, latest) ==
    LET afterEarliest == IsZero(earliest) \/ After(event.Time, earliest)
        beforeLatest == IsZero(latest) \/ Before(event.Time, latest)
    IN  afterEarliest /\ beforeLatest

TimeFilter(event, earliest, latest) ==
    LET afterEarliest == IsZero(earliest)
                            \/ (After(event.Time, earliest) \/ Equal(event.Time, earliest))
        beforeLatest == IsZero(latest)
                            \/ (Before(event.Time, latest) \/ Equal(event.Time, latest))
    IN  afterEarliest /\ beforeLatest

UnhandledToNoteKeepsError(unhandled) ==
    [Name |-> "note", Type |-> "text", Value |-> TextValue(unhandled.Line),
     Line |-> unhandled.Line, LineNumber |-> unhandled.LineNumber,
     Time |-> unhandled.Time, Error |-> unhandled.Error]

UnhandledToNote(unhandled) ==
    [Name |-> "note", Type |-> "text", Value |-> TextValue(unhandled.Line),
     Line |-> unhandled.Line, LineNumber |-> unhandled.LineNumber,
     Time |-> unhandled.Time, Error |-> nil]

(***************************************************************************)
(* fmt.Sprintf("%v", event.Value): a float64 in the shortest %g form        *)
(* (%e when the decimal exponent is below -4 or at least 6), a string as    *)
(* it is, a bool as true or false, and no value as <nil>.                   *)
(***************************************************************************)
RECURSIVE IntStr(_)
IntStr(n) == IF n < 10 THEN DigitStr(n) ELSE IntStr(n \div 10) \o DigitStr(n % 10)

RECURSIVE Zeros(_)
Zeros(n) == IF n <= 0 THEN "" ELSE "0" \o Zeros(n - 1)

RECURSIVE StripZeros(_)
StripZeros(s) ==
    IF Len(s) > 1 /\ Char(s, Len(s)) = "0"
    THEN StripZeros(SubSeq(s, 1, Len(s) - 1))
    ELSE s

FormatFloat(f) ==
    LET abs == IF f.m < 0 THEN 0 - f.m ELSE f.m
        all == IntStr(abs)
        ds == StripZeros(all)
        nd == Len(ds)
        dp == Len(all) + f.e
        exp == dp - 1
        absexp == IF exp < 0 THEN 0 - exp ELSE exp
        fmtE == Char(ds, 1) \o (IF nd > 1 THEN "." \o SubSeq(ds, 2, nd) ELSE "")
                    \o "e" \o (IF exp < 0 THEN "-" ELSE "+")
                    \o (IF absexp < 10 THEN "0" ELSE "") \o IntStr(absexp)
        fmtF == IF dp <= 0 THEN "0." \o Zeros(0 - dp) \o ds
                ELSE IF nd <= dp THEN ds \o Zeros(dp - nd)
                ELSE SubSeq(ds, 1, dp) \o "." \o SubSeq(ds, dp + 1, nd)
    IN  IF abs = 0 THEN "0"
        ELSE (IF f.m < 0 THEN "-" ELSE "")
                \o (IF exp < -4 \/ exp >= 6 THEN fmtE ELSE fmtF)

Sprintf(value) ==
    CASE value.kind = "float" -> FormatFloat(value.f)
      [] value.kind = "text" -> value.s
      [] value.kind = "bool" -> IF value.b THEN "true" ELSE "false"
      [] OTHER -> "<nil>"

\* strings.ReplaceAll(s, old, new) for a one-character old
RECURSIVE ReplaceAll(_, _, _)
ReplaceAll(s, old, new) ==
    IF Len(s) = 0 THEN ""
    ELSE (IF Char(s, 1) = old THEN new ELSE Char(s, 1))
            \o ReplaceAll(SubSeq(s, 2, Len(s)), old, new)

\* strings.Join
RECURSIVE Join(_, _)
Join(elems, sep) ==
    IF Len(elems) = 0 THEN ""
    ELSE IF Len(elems) = 1 THEN elems[1]
    ELSE elems[1] \o sep \o Join(Tail(elems), sep)

(***************************************************************************)
(* sort.Strings: ascending in Go's string order, which compares byte by     *)
(* byte.  ByteOrder lists the characters of the names in ascending byte     *)
(* value.                                                                   *)
(***************************************************************************)
ByteOrder ==
    "\t !\"'-.0123456789:ABCDEFGHIJKLMNOPQRSTUVWXYZ_abcdefghijklmnopqrstuvwxyz"

Ord(c) == CHOOSE k \in 1..Len(ByteOrder) : Char(ByteOrder, k) = c

RECURSIVE StrLess(_, _)
StrLess(a, b) ==
    IF Len(b) = 0 THEN FALSE
    ELSE IF Len(a) = 0 THEN TRUE
    ELSE IF Char(a, 1) # Char(b, 1) THEN Ord(Char(a, 1)) < Ord(Char(b, 1))
    ELSE StrLess(SubSeq(a, 2, Len(a)), SubSeq(b, 2, Len(b)))

RECURSIVE Insert(_, _)
Insert(sorted, k) ==
    IF Len(sorted) = 0 THEN <<k>>
    ELSE IF StrLess(Head(sorted), k) THEN <<Head(sorted)>> \o Insert(Tail(sorted), k)
    ELSE <<k>> \o sorted

RECURSIVE SortStrings(_)
SortStrings(keys) ==
    IF Len(keys) = 0 THEN <<>> ELSE Insert(SortStrings(Tail(keys)), Head(keys))

(***************************************************************************)
(* MixedDefs: a table with a "note" definition for the lines no form        *)
(* matches, and with what the JSON loader does not rule out either: forms   *)
(* whose value action yields a value of another kind than the definition's  *)
(* type ("valve", "gain").                                                  *)
(***************************************************************************)
MixedDefs ==
    [n \in {"PMT1", "comment", "gain", "note", "valve"} |->
        CASE n = "PMT1" -> EventDef(n, "float", <<EventForm("PMT1", "as_float")>>)
          [] n = "comment" -> EventDef(n, "text", <<EventForm("Comment", "as_text")>>)
          [] n = "gain" -> EventDef(n, "float", <<EventForm("Gain", "as_text")>>)
          [] n = "note" -> EventDef(n, "text", <<EventForm("Note", "as_text")>>)
          [] n = "valve" -> EventDef(n, "boolean",
                                <<EventForm("Valve on", "as_true"),
                                  EventForm("Valve off", "as_false"),
                                  EventForm("Valve", "as_text")>>)]

(***************************************************************************)
(* TsdataWriter.  tsdata.NA and tsdata.Delim are the TSDATA format's        *)
(* not-applicable marker and field delimiter.  The keys of EventDefs are    *)
(* collected by ranging over a Go map, in any order, before they are        *)
(* sorted: NewTsdataWriter is the set of writers over all those orders.     *)
(* ValidateMetadata belongs to the tsdata library and is taken to pass: no  *)
(* table here has a definition named "time".  coli holds Go's 0-based       *)
(* indexes; the sequences Headers, Types, Units, Comments are 1-based.      *)
(***************************************************************************)
NA == "NA"

Delim == "\t"

RECURSIVE KeyOrders(_)
KeyOrders(names) ==
    IF names = {} THEN {<<>>}
    ELSE UNION {{<<n>> \o rest : rest \in KeyOrders(names \ {n})} : n \in names}

\* TsdataWriter without `t.coli[column] = i` for the definitions' columns
TsdataWriterTimeOnly(columns, table) ==
    [Headers |-> columns,
     Types |-> [i \in 1..Len(columns) |->
                    IF i = 1 THEN "time" ELSE table[columns[i]].Type],
     Units |-> [i \in 1..Len(columns) |-> NA],
     Comments |-> [i \in 1..Len(columns) |->
                    IF i = 1 THEN "ISO8601 timestamp" ELSE NA],
     coli |-> [n \in {"time"} |-> 0]]

\* the writer NewTsdataWriter builds from the column list
TsdataWriter(columns, table) ==
    [Headers |-> columns,
     Types |-> [i \in 1..Len(columns) |->
                    IF i = 1 THEN "time" ELSE table[columns[i]].Type],
     Units |-> [i \in 1..Len(columns) |-> NA],
     Comments |-> [i \in 1..Len(columns) |->
                    IF i = 1 THEN "ISO8601 timestamp" ELSE NA],
     coli |-> [n \in {columns[i] : i \in 1..Len(columns)} |->
                    (CHOOSE i \in 1..Len(columns) :
                        /\ columns[i] = n
                        /\ \A j \in (i + 1)..Len(columns) : columns[j] # n) - 1]]

\* NewTsdataWriter without sort.Strings(keys)
NewTsdataWriterUnsorted(table) ==
    {TsdataWriter(<<"time">> \o keys, table) : keys \in KeyOrders(DOMAIN table)}

NewTsdataWriter(table) ==
    {TsdataWriter(<<"time">> \o SortStrings(keys), table) :
        keys \in KeyOrders(DOMAIN table)}

\* the tables of the model, and the writers NewTsdataWriter can build of each
Tables == {GoodDefs, OddDefs, MixedDefs}

Writers == [table \in Tables |-> NewTsdataWriter(table)]

\* TsdataWriter.HeaderText: of the header tsdata builds, the line of column
\* names
HeaderText(t) == Join(t.Headers, Delim)

\* the writer before NewTsdataWriter has run
NoWriter == TsdataWriter(<<"time">>, <<>>)

(***************************************************************************)
(* TsdataWriter.EventText: [text |-> the row, err |-> the render error].    *)
(* RenderField is the branch on the column's type that fills outs[i].       *)
(***************************************************************************)
\* RenderField taking any value that is not true for false
RenderFieldCoerces(type, value) ==
    IF type = "boolean"
    THEN [text |-> IF value.kind = "bool" /\ value.b THEN "TRUE" ELSE "FALSE",
          err |-> nil]
    ELSE IF type = "text"
    THEN [text |-> ReplaceAll(Sprintf(value), Delim, " "), err |-> nil]
    ELSE [text |-> Sprintf(value), err |-> nil]

RenderField(type, value) ==
    IF type = "boolean"
    THEN IF value.kind # "bool"
         THEN [text |-> "", err |-> "bad boolean value"]
         ELSE [text |-> IF value.b THEN "TRUE" ELSE "FALSE", err |-> nil]
    ELSE IF type = "text"
    THEN [text |-> ReplaceAll(Sprintf(value), Delim, " "), err |-> nil]
    ELSE [text |-> Sprintf(value), err |-> nil]

\* EventText without the test of event.Error
EventTextRendersErrors(t, event) ==
    LET outs == [i \in 1..Len(t.Headers) |->
                    IF i = 1 THEN Format(event.Time) ELSE NA]
    IN  IF event.Name \in DOMAIN t.coli
        THEN LET i == t.coli[event.Name]
                 field == RenderField(t.Types[i + 1], event.Value)
             IN  IF field.err # nil THEN [text |-> "", err |-> field.err]
                 ELSE [text |-> Join([outs EXCEPT ![i + 1] = field.text], Delim),
                       err |-> nil]
        ELSE [text |-> "", err |-> "TSDATA column index not found"]

\* EventText leaving the other columns empty
EventTextNoNA(t, event) ==
    LET outs == [i \in 1..Len(t.Headers) |->
                    IF i = 1 THEN Format(event.Time) ELSE ""]
    IN  IF event.Error # nil THEN [text |-> "", err |-> nil]
        ELSE IF event.Name \in DOMAIN t.coli
        THEN LET i == t.coli[event.Name]
                 field == RenderField(t.Types[i + 1], event.Value)
             IN  IF field.err # nil THEN [text |-> "", err |-> field.err]
                 ELSE [text |-> Join([outs EXCEPT ![i + 1] = field.text], Delim),
                       err |-> nil]
        ELSE [text |-> "", err |-> "TSDATA column index not found"]

EventText(t, event) ==
    LET outs == [i \in 1..Len(t.Headers) |->
                    IF i = 1 THEN Format(event.Time) ELSE NA]
    IN  IF event.Error # nil THEN [text |-> "", err |-> nil]
        ELSE IF event.Name \in DOMAIN t.coli
        THEN LET i == t.coli[event.Name]
                 field == RenderField(t.Types[i + 1], event.Value)
             IN  IF field.err # nil THEN [text |-> "", err |-> field.err]
                 ELSE [text |-> Join([outs EXCEPT ![i + 1] = field.text], Delim),
                       err |-> nil]
        ELSE [text |-> "", err |-> "TSDATA column index not found"]

(***************************************************************************)
(* Bounds of the model.                                                     *)
(***************************************************************************)
\* longest input, in physical lines
MaxLines == 3

\* most calls of Scan on one scanner
MaxCalls == 5

\* the physical lines an input is made of
LinePool ==
    {"2015-03-14T00-26-52+00-00",    \* a timestamp line
     "2015-03-14T01-26-53+01-00",    \* a timestamp line, one second later
     "2015-03-14T00:26:52+00:00",    \* RFC3339 already: a data line
     "2015-02-30T00-26-52+00-00",    \* timestamp grammar, but no such date
     "",
     "Fault:",
     "PMT1: 1.5",
     "PMT1: abc",
     "PMT1",
     "Comment",
     "junk",
     "Bad: 1"}

\* the events given to TimeFilter lie at the times FilterTime(0..MaxFilterTime)
MaxFilterTime == 3

\* strictly increasing times, on either side of a midnight
FilterTime(k) ==
    [d |-> 735670 + ((k + 1) \div 2), s |-> IF k % 2 = 0 THEN 86399 ELSE 0,
     off |-> 0]

FilterTimes == {FilterTime(k) : k \in 0..MaxFilterTime}

\* how the bufio.Scanner can end: end of input, or a failed read
ReadOutcomes == {nil, "read error"}

BoundedSeq(S, n) == UNION {[1..k -> S] : k \in 0..n}

(***************************************************************************)
(* State.                                                                   *)
(*   defs     EventDefs, the definition table loaded by init()              *)
(*   scanner  es.scanner, the bufio.Scanner: the lines its reader holds,    *)
(*            how many it has handed out, and its Err(), which is known     *)
(*            once it has returned false: nil at end of input, or the       *)
(*            read error that stopped it                                    *)
(*   es       the EventScanner's own fields t, i, event, error, done        *)
(*   rets     the values returned by the calls of Scan so far               *)
(*   emitted  the events handed to the caller (Scan returned true)          *)
(*   matched  the definition and value action CreateEvent matched for the   *)
(*            line of the last call (empty when it matched none)            *)
(*   earliest, latest   the bounds given to TimeFilter (zero: no bound)     *)
(*   pending  the events still to be passed to TimeFilter                   *)
(*   accepted, rejected   the events TimeFilter returned true, false for    *)
(***************************************************************************)
VARIABLES defs, scanner, es, rets, emitted, matched,
          earliest, latest, pending, accepted, rejected,
          tsdw, render, main

vars == <<defs, scanner, es, rets, emitted, matched,
          earliest, latest, pending, accepted, rejected,
          tsdw, render, main>>

\* the result of an EventText that has not run
NoText == [text |-> "", err |-> nil]

\* no event is being rendered
NoRender == [pc |-> "off", event |-> NoEvent, from |-> NoEvent, out |-> NoText]

\* the command's Action is not running
NoMain == [pc |-> "off", quiet |-> FALSE, out |-> <<>>, log |-> <<>>,
           seen |-> <<>>, err |-> nil]

NoMatch == [edef |-> "", eform |-> ""]

\* NewEventScanner: &EventScanner{scanner: bufio.NewScanner(r)}
NewEventScanner == [t |-> ZeroTime, i |-> 0, event |-> NoEvent, error |-> nil, done |-> FALSE]

Init ==
    /\ defs \in {GoodDefs, OddDefs}
    /\ scanner \in [lines : BoundedSeq(LinePool, MaxLines), pos : {0}, err : {nil}]
    /\ es = NewEventScanner
    /\ rets = <<>>
    /\ emitted = <<>>
    /\ matched = NoMatch
    /\ earliest = ZeroTime
    /\ latest = ZeroTime
    /\ pending = <<>>
    /\ accepted = <<>>
    /\ rejected = <<>>
    /\ tsdw = NoWriter
    /\ render = NoRender
    /\ main = NoMain

(***************************************************************************)
(* ScanLoop with `es.i++` moved below the `continue` of the skipped lines:  *)
(* empty and "Fault:" lines are not counted.                                *)
(***************************************************************************)
RECURSIVE ScanLoopSkipUncounted(_, _, _, _)
ScanLoopSkipUncounted(lines, pos, tm, i) ==
    IF pos >= Len(lines)
    THEN [more |-> FALSE, pos |-> pos, t |-> tm, i |-> i, line |-> ""]
    ELSE LET line == lines[pos + 1]
             p == parseTimestamp(line)
         IN  IF p.err = nil
             THEN ScanLoopSkipUncounted(lines, pos + 1, p.t, i + 1)
             ELSE IF line = "" \/ line = "Fault:"
             THEN ScanLoopSkipUncounted(lines, pos + 1, tm, i)
             ELSE [more |-> TRUE, pos |-> pos + 1, t |-> tm, i |-> i + 1,
                   line |-> line]

(***************************************************************************)
(* The loop `for es.scanner.Scan()` of EventScanner.Scan, from the line     *)
(* after pos: timestamp lines set t, empty and "Fault:" lines are skipped,  *)
(* every line read increments i.  It stops at the first line that is to     *)
(* become an event (more = TRUE) or when the bufio.Scanner has no further   *)
(* line (more = FALSE).                                                     *)
(***************************************************************************)
RECURSIVE ScanLoop(_, _, _, _)
ScanLoop(lines, pos, tm, i) ==
    IF pos >= Len(lines)
    THEN [more |-> FALSE, pos |-> pos, t |-> tm, i |-> i, line |-> ""]
    ELSE LET line == lines[pos + 1]
             p == parseTimestamp(line)
         IN  IF p.err = nil
             THEN ScanLoop(lines, pos + 1, p.t, i + 1)
             ELSE IF line = "" \/ line = "Fault:"
             THEN ScanLoop(lines, pos + 1, tm, i + 1)
             ELSE [more |-> TRUE, pos |-> pos + 1, t |-> tm, i |-> i + 1,
                   line |-> line]

(***************************************************************************)
(* EventScanner.Scan: the possible outcomes of one call, each the new       *)
(* EventScanner, the new bufio.Scanner, the value returned and what         *)
(* CreateEvent matched.                                                     *)
(***************************************************************************)
\* ScanDone clearing the current event before it returns false
ScanDoneClearsEvent(e, sc) ==
    [es |-> [e EXCEPT !.event = NoEvent], scanner |-> sc, ret |-> FALSE,
     matched |-> NoMatch]

\* if es.done { return false }
ScanDone(e, sc) == [es |-> e, scanner |-> sc, ret |-> FALSE, matched |-> NoMatch]

\* ScanEvent taking the event's own error for an error of CreateEvent
ScanEventErrorStops(e, sc, c) ==
    [es |-> IF c.err # nil THEN [e EXCEPT !.error = c.err]
            ELSE IF c.event.Error # nil THEN [e EXCEPT !.error = c.event.Error]
            ELSE [e EXCEPT !.event = c.event],
     scanner |-> sc,
     ret |-> (c.err = nil /\ c.event.Error = nil),
     matched |-> [edef |-> c.edef, eform |-> c.eform]]

\* ScanEvent giving the line it has read back to the bufio.Scanner
ScanEventRewinds(e, sc, c) ==
    [es |-> IF c.err # nil THEN [e EXCEPT !.error = c.err]
                           ELSE [e EXCEPT !.event = c.event],
     scanner |-> [sc EXCEPT !.pos = sc.pos - 1],
     ret |-> (c.err = nil),
     matched |-> [edef |-> c.edef, eform |-> c.eform]]

\* event, err := CreateEvent(line, es.t, es.i), with the result c
ScanEvent(e, sc, c) ==
    [es |-> IF c.err # nil THEN [e EXCEPT !.error = c.err]
                           ELSE [e EXCEPT !.event = c.event],
     scanner |-> sc,
     ret |-> (c.err = nil),
     matched |-> [edef |-> c.edef, eform |-> c.eform]]

\* ScanEnd without `es.error = err`
ScanEndDropsErr(e, sc, err) ==
    [es |-> [e EXCEPT !.done = TRUE],
     scanner |-> [sc EXCEPT !.err = err],
     ret |-> FALSE,
     matched |-> NoMatch]

\* after the loop: es.done = true, and es.scanner.Err() is kept when not nil
ScanEnd(e, sc, err) ==
    [es |-> [e EXCEPT !.done = TRUE, !.error = IF err # nil THEN err ELSE e.error],
     scanner |-> [sc EXCEPT !.err = err],
     ret |-> FALSE,
     matched |-> NoMatch]

ScanCall(e, sc, table) ==
    IF e.done
    THEN {ScanDone(e, sc)}
    ELSE LET l == ScanLoop(sc.lines, sc.pos, e.t, e.i)
             read == [e EXCEPT !.t = l.t, !.i = l.i]
             at == [sc EXCEPT !.pos = l.pos]
         IN  IF l.more
             THEN {ScanEvent(read, at, c) : c \in CreateEvent(l.line, l.t, l.i, table)}
             ELSE {ScanEnd(read, at, err) : err \in ReadOutcomes}

Scan ==
    /\ Len(rets) < MaxCalls
    /\ \E o \in ScanCall(es, scanner, defs) :
        /\ es' = o.es
        /\ scanner' = o.scanner
        /\ rets' = Append(rets, o.ret)
        /\ matched' = o.matched
        /\ emitted' = IF o.ret THEN Append(emitted, o.es.event) ELSE emitted
    /\ UNCHANGED <<defs, earliest, latest, pending, accepted, rejected,
                   tsdw, render, main>>

Next == Scan

Spec == Init /\ [][Next]_vars

\* The scan of the inputs made of a few lines, by a caller that goes on
\* calling Scan: `for scanner.Scan()`
TermLines == {"2015-03-14T00-26-52+00-00", "", "PMT1: 1.5", "Bad: 1"}

InitTerm ==
    /\ defs \in {GoodDefs, OddDefs}
    /\ scanner \in [lines : BoundedSeq(TermLines, MaxLines), pos : {0}, err : {nil}]
    /\ es = NewEventScanner
    /\ rets = <<>>
    /\ emitted = <<>>
    /\ matched = NoMatch
    /\ earliest = ZeroTime
    /\ latest = ZeroTime
    /\ pending = <<>>
    /\ accepted = <<>>
    /\ rejected = <<>>
    /\ tsdw = NoWriter
    /\ render = NoRender
    /\ main = NoMain

\* A call of Scan returns.  Every step of Next that changes rets is a step of
\* Scan, and Scan is enabled exactly when Len(rets) < MaxCalls, so weak
\* fairness of this step is weak fairness of Scan.
ScanReturns ==
    /\ Len(rets) < MaxCalls
    /\ rets' \in {Append(rets, b) : b \in BOOLEAN}

SpecTerm == InitTerm /\ [][Next]_vars /\ WF_rets(ScanReturns)


(***************************************************************************)
(* TimeFilter on its own: a caller passes a list of events, one with no     *)
(* time and one at each of the times FilterTimes, through TimeFilter with   *)
(* bounds drawn from the same times and the zero time.                      *)
(***************************************************************************)
InitFilter ==
    /\ defs = GoodDefs
    /\ scanner = [lines |-> <<>>, pos |-> 0, err |-> nil]
    /\ es = NewEventScanner
    /\ rets = <<>>
    /\ emitted = <<>>
    /\ matched = NoMatch
    /\ earliest \in FilterTimes \cup {ZeroTime}
    /\ latest \in FilterTimes \cup {ZeroTime}
    /\ pending = <<NoTimeEvent(Event("junk", ZeroTime, 1))>>
                    \o [k \in 1..(MaxFilterTime + 1) |->
                            Unhandled(Event("junk", FilterTime(k - 1), k + 1))]
    /\ accepted = <<>>
    /\ rejected = <<>>
    /\ tsdw = NoWriter
    /\ render = NoRender
    /\ main = NoMain

FilterStep ==
    /\ pending # <<>>
    /\ pending' = Tail(pending)
    /\ IF TimeFilter(Head(pending), earliest, latest)
       THEN /\ accepted' = Append(accepted, Head(pending))
            /\ UNCHANGED rejected
       ELSE /\ rejected' = Append(rejected, Head(pending))
            /\ UNCHANGED accepted
    /\ UNCHANGED <<defs, scanner, es, rets, emitted, matched, earliest, latest,
                   tsdw, render, main>>

NextFilter == FilterStep

SpecFilter == InitFilter /\ [][NextFilter]_vars

(***************************************************************************)
(* The writer on its own: an event that CreateEvent makes of one line is    *)
(* converted by UnhandledToNote when it is unhandled and rendered by        *)
(* EventText of a writer built from the same table.  render.from keeps the  *)
(* event as CreateEvent made it.                                            *)
(***************************************************************************)
WriterLines ==
    {"PMT1: 1.5", "PMT1", "Comment: a\tb", "Gain: a\tb", "Gain: 7",
     "Valve on", "Valve off", "Valve: x", "Laser on", "junk"}

WriterTimes ==
    {ZeroTime, parseTimestamp("2015-03-14T00-26-52+00-00").t,
     parseTimestamp("2015-12-31T23-59-59-07-30").t}

InitWriter ==
    /\ defs \in {GoodDefs, MixedDefs}
    /\ scanner = [lines |-> <<>>, pos |-> 0, err |-> nil]
    /\ es = NewEventScanner
    /\ rets = <<>>
    /\ emitted = <<>>
    /\ matched = NoMatch
    /\ earliest = ZeroTime
    /\ latest = ZeroTime
    /\ pending = <<>>
    /\ accepted = <<>>
    /\ rejected = <<>>
    /\ tsdw = NoWriter
    /\ \E line \in WriterLines, tm \in WriterTimes, n \in 1..MaxLines :
         \E c \in CreateEvent(line, tm, n, defs) :
            /\ c.err = nil
            /\ render = [pc |-> "new", event |-> c.event, from |-> c.event,
                         out |-> NoText]
    /\ main = NoMain

WriterNew ==
    /\ render.pc = "new"
    /\ tsdw' \in Writers[defs]
    /\ render' = [render EXCEPT !.pc = "event"]
    /\ UNCHANGED <<defs, scanner, es, rets, emitted, matched, earliest, latest,
                   pending, accepted, rejected, main>>

WriterToNote ==
    /\ render.pc = "event"
    /\ render.event.Name = "unhandled"
    /\ render' = [render EXCEPT !.event = UnhandledToNote(render.event)]
    /\ UNCHANGED <<defs, scanner, es, rets, emitted, matched, earliest, latest,
                   pending, accepted, rejected, tsdw, main>>

WriterRender ==
    /\ render.pc = "event"
    /\ render' = [render EXCEPT !.pc = "done", !.out = EventText(tsdw, render.event)]
    /\ UNCHANGED <<defs, scanner, es, rets, emitted, matched, earliest, latest,
                   pending, accepted, rejected, tsdw, main>>

NextWriter == WriterNew \/ WriterToNote \/ WriterRender

SpecWriter == InitWriter /\ [][NextWriter]_vars

(***************************************************************************)
(* The command's Action (src/cmd/seaflog/main.go) from the creation of the  *)
(* writer: MainStart builds the writer and writes the header, MainStep is   *)
(* one turn of `for scanner.Scan()` with its body.  main.out is what was    *)
(* written, main.log what seaflog.Log printed; Quiet(true) sends the log's  *)
(* output to io.Discard.  main.seen records, for every event Scan returned, *)
(* the event, whether TimeFilter passed it, the event after the conversion  *)
(* of an unhandled event, and whether a row was written for it.             *)
(***************************************************************************)
MainLines ==
    {"2015-03-14T00-26-52+00-00", "2015-03-14T01-26-53+01-00", "",
     "PMT1: 1.5", "PMT1", "junk", "Valve: x"}

\* how a write to the bufio.Writer can end
WriteOutcomes == {nil, "write error"}

\* seaflog.Log.Printf
Printf(quiet, log, lineNumber, message, line) ==
    IF quiet THEN log
    ELSE Append(log, [LineNumber |-> lineNumber, message |-> message, Line |-> line])

InitMain ==
    /\ defs \in {GoodDefs, MixedDefs}
    /\ scanner \in [lines : BoundedSeq(MainLines, MaxLines), pos : {0}, err : {nil}]
    /\ es = NewEventScanner
    /\ rets = <<>>
    /\ emitted = <<>>
    /\ matched = NoMatch
    /\ earliest \in {ZeroTime, ParseRFC3339("2015-03-14T00:26:53Z").t}
    /\ latest \in {ZeroTime, ParseRFC3339("2015-03-14T00:26:52Z").t}
    /\ pending = <<>>
    /\ accepted = <<>>
    /\ rejected = <<>>
    /\ tsdw = NoWriter
    /\ render = NoRender
    /\ main \in [pc : {"start"}, quiet : BOOLEAN, out : {<<>>}, log : {<<>>},
                  seen : {<<>>}, err : {nil}]

MainStart ==
    /\ main.pc = "start"
    /\ tsdw' \in Writers[defs]
    /\ \E werr \in WriteOutcomes :
         main' = IF werr # nil
                 THEN [main EXCEPT !.pc = "done", !.err = werr]
                 ELSE [main EXCEPT !.pc = "loop", !.out = <<HeaderText(tsdw')>>]
    /\ UNCHANGED <<defs, scanner, es, rets, emitted, matched, earliest, latest,
                   pending, accepted, rejected, render>>

\* LoopBody writing the row above the rows already written
LoopBodyPrepends(m, w, scanned, from, to) ==
    LET event == IF scanned.Name = "unhandled" THEN UnhandledToNote(scanned)
                 ELSE scanned
        noted == IF scanned.Name = "unhandled"
                 THEN Printf(m.quiet, m.log, event.LineNumber,
                             "unrecognized event, treating as a \"note\"", event.Line)
                 ELSE m.log
        text == EventText(w, event)
        saw(passed, wrote) ==
            Append(m.seen, [scanned |-> scanned, passed |-> passed,
                            event |-> IF passed THEN event ELSE scanned,
                            wrote |-> wrote])
    IN  IF ~TimeFilter(scanned, from, to)
        THEN {[m EXCEPT !.seen = saw(FALSE, FALSE)]}
        ELSE IF event.Error # nil
        THEN {[m EXCEPT !.seen = saw(TRUE, FALSE),
                        !.log = Printf(m.quiet, noted, event.LineNumber,
                                       event.Error, event.Line)]}
        ELSE IF text.err # nil
        THEN {[m EXCEPT !.seen = saw(TRUE, FALSE),
                        !.log = Printf(m.quiet, noted, event.LineNumber,
                                       "error serializing", event.Line)]}
        ELSE {IF werr # nil
              THEN [m EXCEPT !.seen = saw(TRUE, FALSE), !.log = noted,
                             !.pc = "done", !.err = werr]
              ELSE [m EXCEPT !.seen = saw(TRUE, TRUE), !.log = noted,
                             !.out = <<Head(m.out), text.text>> \o Tail(m.out)]
                : werr \in WriteOutcomes}

\* LoopBody printing nothing for an event whose error is set
LoopBodyUnreported(m, w, scanned, from, to) ==
    LET event == IF scanned.Name = "unhandled" THEN UnhandledToNote(scanned)
                 ELSE scanned
        noted == IF scanned.Name = "unhandled"
                 THEN Printf(m.quiet, m.log, event.LineNumber,
                             "unrecognized event, treating as a \"note\"", event.Line)
                 ELSE m.log
        text == EventText(w, event)
        saw(passed, wrote) ==
            Append(m.seen, [scanned |-> scanned, passed |-> passed,
                            event |-> IF passed THEN event ELSE scanned,
                            wrote |-> wrote])
    IN  IF ~TimeFilter(scanned, from, to)
        THEN {[m EXCEPT !.seen = saw(FALSE, FALSE)]}
        ELSE IF event.Error # nil
        THEN {[m EXCEPT !.seen = saw(TRUE, FALSE),
                        !.log = noted]}
        ELSE IF text.err # nil
        THEN {[m EXCEPT !.seen = saw(TRUE, FALSE),
                        !.log = Printf(m.quiet, noted, event.LineNumber,
                                       "error serializing", event.Line)]}
        ELSE {IF werr # nil
              THEN [m EXCEPT !.seen = saw(TRUE, FALSE), !.log = noted,
                             !.pc = "done", !.err = werr]
              ELSE [m EXCEPT !.seen = saw(TRUE, TRUE), !.log = noted,
                             !.out = Append(m.out, text.text)]
                : werr \in WriteOutcomes}

\* the body of the loop for the event Scan returned: the states of main it
\* can end in
LoopBody(m, w, scanned, from, to) ==
    LET event == IF scanned.Name = "unhandled" THEN UnhandledToNote(scanned)
                 ELSE scanned
        noted == IF scanned.Name = "unhandled"
                 THEN Printf(m.quiet, m.log, event.LineNumber,
                             "unrecognized event, treating as a \"note\"", event.Line)
                 ELSE m.log
        text == EventText(w, event)
        saw(passed, wrote) ==
            Append(m.seen, [scanned |-> scanned, passed |-> passed,
                            event |-> IF passed THEN event ELSE scanned,
                            wrote |-> wrote])
    IN  IF ~TimeFilter(scanned, from, to)
        THEN {[m EXCEPT !.seen = saw(FALSE, FALSE)]}
        ELSE IF event.Error # nil
        THEN {[m EXCEPT !.seen = saw(TRUE, FALSE),
                        !.log = Printf(m.quiet, noted, event.LineNumber,
                                       event.Error, event.Line)]}
        ELSE IF text.err # nil
        THEN {[m EXCEPT !.seen = saw(TRUE, FALSE),
                        !.log = Printf(m.quiet, noted, event.LineNumber,
                                       "error serializing", event.Line)]}
        ELSE {IF werr # nil
              THEN [m EXCEPT !.seen = saw(TRUE, FALSE), !.log = noted,
                             !.pc = "done", !.err = werr]
              ELSE [m EXCEPT !.seen = saw(TRUE, TRUE), !.log = noted,
                             !.out = Append(m.out, text.text)]
                : werr \in WriteOutcomes}

MainStep ==
    /\ main.pc = "loop"
    /\ \E o \in ScanCall(es, scanner, defs) :
         /\ es' = o.es
         /\ scanner' = o.scanner
         /\ rets' = Append(rets, o.ret)
         /\ matched' = o.matched
         /\ emitted' = IF o.ret THEN Append(emitted, o.es.event) ELSE emitted
         /\ IF o.ret
            THEN main' \in LoopBody(main, tsdw, o.es.event, earliest, latest)
            ELSE main' = [main EXCEPT !.pc = "done", !.err = o.es.error]
    /\ UNCHANGED <<defs, earliest, latest, pending, accepted, rejected,
                   tsdw, render>>

NextMain == MainStart \/ MainStep

SpecMain == InitMain /\ [][NextMain]_vars

(***************************************************************************)
(* Vocabulary of the properties.  A timestamp line is a line of the         *)
(* instrument's grammar YYYY-MM-DDThh-mm-ss+hh-mm whose canonical form is a *)
(* date-time; a noise line is an empty line or the fault marker; every      *)
(* other line is an event line.                                             *)
(***************************************************************************)
IsTimestampLine(line) == timeExpr(line) /\ ParseRFC3339(ReplaceAllString(line)).ok

TimestampOf(line) == ParseRFC3339(ReplaceAllString(line)).t

IsNoiseLine(line) == line = "" \/ line = "Fault:"

IsEventLine(line) == ~IsTimestampLine(line) /\ ~IsNoiseLine(line)

\* the lines the bufio.Scanner has handed out so far
LinesRead == SubSeq(scanner.lines, 1, scanner.pos)

\* the time of the last timestamp line among the first n lines, else zero
RECURSIVE LastTimestamp(_, _)
LastTimestamp(lines, n) ==
    IF n = 0 THEN ZeroTime
    ELSE IF IsTimestampLine(lines[n]) THEN TimestampOf(lines[n])
    ELSE LastTimestamp(lines, n - 1)

\* the positions of the event lines among the first n lines, ascending
RECURSIVE EventLineNumbers(_, _)
EventLineNumbers(lines, n) ==
    IF n = 0 THEN <<>>
    ELSE IF IsEventLine(lines[n]) THEN Append(EventLineNumbers(lines, n - 1), n)
    ELSE EventLineNumbers(lines, n - 1)

\* the last call of Scan returned true
Returned(b) == Len(rets) > 0 /\ rets[Len(rets)] = b

\* the event emitted for line k, if any
EmittedFor(k) == {j \in 1..Len(emitted) : emitted[j].LineNumber = k}

\* C1: when the input has been read to its end without a read failure, under
\* a valid definition table, the events emitted are, in input order, exactly
\* one for each line that is neither a timestamp line, nor empty, nor "Fault:".
C1_OneEventPerEventLine ==
    (es.done /\ scanner.err = nil /\ ValidDefs(defs)) =>
        /\ [j \in 1..Len(emitted) |-> emitted[j].LineNumber]
              = EventLineNumbers(scanner.lines, Len(scanner.lines))
        /\ \A j \in 1..Len(emitted) :
              emitted[j].Line = scanner.lines[emitted[j].LineNumber]

\* C2: a line that is already an RFC3339 (colon-separated) timestamp is a data
\* line: once read it has produced an event, and reading it has left the
\* scanner's current time at the time of the last timestamp line before it.
C2_Rfc3339LineIsData ==
    ValidDefs(defs) =>
        \A k \in 1..scanner.pos :
            ParseRFC3339(scanner.lines[k]).ok =>
                /\ EmittedFor(k) # {}
                /\ k = scanner.pos => es.t = LastTimestamp(scanner.lines, k - 1)

\* C3: every emitted event carries the time of the most recent timestamp line
\* before its line, and the scanner's current time is that of the most recent
\* timestamp line read (zero when there is none).
C3_EventTimeIsLastTimestamp ==
    /\ \A j \in 1..Len(emitted) :
          emitted[j].Time = LastTimestamp(scanner.lines, emitted[j].LineNumber - 1)
    /\ es.t = LastTimestamp(scanner.lines, scanner.pos)

\* C4: the line counter counts every physical line read, timestamp, empty and
\* "Fault:" lines included; an event's lineNumber is the position of its line
\* in the input, and the line numbers of successive events strictly increase.
C4_LineNumbers ==
    /\ es.i = scanner.pos
    /\ Returned(TRUE) => es.event.LineNumber = scanner.pos
    /\ \A j \in 1..Len(emitted) :
          /\ emitted[j].LineNumber \in 1..scanner.pos
          /\ scanner.lines[emitted[j].LineNumber] = emitted[j].Line
          /\ j > 1 => emitted[j - 1].LineNumber < emitted[j].LineNumber

\* an event was emitted for a third line that follows a timestamp line and a
\* noise line
C4_Witness ==
    /\ Returned(TRUE)
    /\ es.event.LineNumber = 3
    /\ IsTimestampLine(scanner.lines[1])
    /\ IsNoiseLine(scanner.lines[2])

\* C5: every event line read before any timestamp line has yielded an event
\* with the error "event with no time set", no value, and empty name and type.
C5_NoTimeEvent ==
    \A k \in 1..scanner.pos :
        (/\ IsEventLine(scanner.lines[k])
         /\ \A h \in 1..(k - 1) : ~IsTimestampLine(scanner.lines[h]))
        => \E j \in EmittedFor(k) :
              /\ emitted[j].Error = "event with no time set"
              /\ emitted[j].Value = NilValue
              /\ emitted[j].Name = ""
              /\ emitted[j].Type = ""


\* C6: the event emitted for a line read while the current time is set and
\* matching no form of any definition has name "unhandled", type "text", the
\* raw line as its value and the error "unrecognized event".
C6_Unhandled ==
    \A j \in 1..Len(emitted) :
        (/\ ~IsZero(emitted[j].Time)
         /\ \A n \in DOMAIN defs : ~Matches(defs[n], emitted[j].Line))
        => /\ emitted[j].Name = "unhandled"
           /\ emitted[j].Type = "text"
           /\ emitted[j].Value = TextValue(emitted[j].Line)
           /\ emitted[j].Error = "unrecognized event"

\* an unmatched line was read after a timestamp line and has its event
C6_Witness ==
    \E j \in 1..Len(emitted) :
        /\ ~IsZero(emitted[j].Time)
        /\ emitted[j].Line = "junk"
        /\ emitted[j].Name = "unhandled"

\* the failure cases of as_float and as_text for a line
MissingSeparator(line) == IndexOf(line, ":") = 0

NotAFloat(line) ==
    /\ ~MissingSeparator(line)
    /\ ParseFloat(TrimSpace(SplitN2(line, ":")[2])).err # nil

\* C7: when the form matched for a line has value action as_float or as_text
\* and the line has no ':', or (as_float) the text after it is no float, Scan
\* returns true with an event that has the matched definition's name and type,
\* its error set and no value.
C7_DecodeFailure ==
    (/\ Len(rets) > 0
     /\ matched.eform \in {"as_float", "as_text"}
     /\ \/ MissingSeparator(scanner.lines[scanner.pos])
        \/ matched.eform = "as_float" /\ NotAFloat(scanner.lines[scanner.pos]))
    => /\ Returned(TRUE)
       /\ es.event.Line = scanner.lines[scanner.pos]
       /\ es.event.Name = defs[matched.edef].Name
       /\ es.event.Type = defs[matched.edef].Type
       /\ es.event.Error # nil
       /\ es.event.Value = NilValue

\* after a timestamp line, a line whose float does not parse and a line
\* without separator have each produced an event
C7_Witness ==
    /\ Len(emitted) = 2
    /\ emitted[1].Line = "PMT1: abc" /\ emitted[1].Error = "invalid syntax"
    /\ emitted[2].Line = "Comment" /\ emitted[2].Name = "comment"
    /\ matched.eform = "as_text"
    /\ Returned(TRUE)

\* C8: once the scanner is done (Scan has returned false at the end of the
\* input or on a read failure), every later call of Scan returns false, reads
\* no line and changes neither the current event, the line counter, the
\* current time nor the stored error.
C8_DoneIsFinal ==
    [][es.done => /\ rets'[Len(rets')] = FALSE
                  /\ es' = es
                  /\ scanner' = scanner
                  /\ emitted' = emitted]_vars

\* Scan has been called twice after the call that ended the scan, which left
\* an event, a read error and a non-zero time behind
C8_Witness ==
    /\ es.done
    /\ Len(rets) >= 3
    /\ rets[Len(rets) - 2] = FALSE
    /\ es.error # nil
    /\ es.event # NoEvent
    /\ ~IsZero(es.t)

\* C9: when scanning has ended, the stored error is the read error if the
\* underlying read failed; under a valid definition table it is nil if the
\* input simply ran out, and it is nil as long as the scan has not ended.
C9_ErrAfterScan ==
    /\ es.done => /\ scanner.err # nil => es.error = scanner.err
                  /\ (scanner.err = nil /\ ValidDefs(defs)) => es.error = nil
    /\ (~es.done /\ ValidDefs(defs)) => es.error = nil
    /\ (Len(rets) > 0 /\ ValidDefs(defs) /\ ~Returned(TRUE)) => es.done

\* a scan that emitted an event has ended on a read failure
C9_Witness ==
    /\ es.done
    /\ scanner.err = "read error"
    /\ es.error = "read error"
    /\ Len(emitted) > 0

\* a scan that emitted an event has ended at the end of the input
C9_WitnessEOF ==
    /\ es.done
    /\ scanner.err = nil
    /\ ValidDefs(defs)
    /\ Len(emitted) > 0


\* the order of instants
TimeLeq(a, b) == a.d < b.d \/ (a.d = b.d /\ a.s <= b.s)

\* the times of the events of a list
TimesOf(events) == {events[j].Time : j \in 1..Len(events)}

\* C10: TimeFilter accepts an event exactly when (earliest is zero or the
\* event's time >= earliest) and (latest is zero or the event's time <= latest);
\* so of events at T0 < T1 < T2 < T3, earliest = T1 accepts exactly T1, T2, T3,
\* latest = T1 exactly T0, T1, both earliest = T1 and latest = T2 exactly T1, T2,
\* and no bound accepts them all.
C10_TimeFilter ==
    LET InRange(e) == /\ IsZero(earliest) \/ TimeLeq(earliest, e.Time)
                      /\ IsZero(latest) \/ TimeLeq(e.Time, latest)
        T(k) == FilterTime(k)
        Four == {T(0), T(1), T(2), T(3)}
    IN  /\ \A j \in 1..Len(accepted) : InRange(accepted[j])
        /\ \A j \in 1..Len(rejected) : ~InRange(rejected[j])
        /\ pending = <<>> =>
            /\ (earliest = T(1) /\ IsZero(latest))
                    => TimesOf(accepted) \cap Four = {T(1), T(2), T(3)}
            /\ (IsZero(earliest) /\ latest = T(1))
                    => TimesOf(accepted) \cap Four = {T(0), T(1)}
            /\ (earliest = T(1) /\ latest = T(2))
                    => TimesOf(accepted) \cap Four = {T(1), T(2)}
            /\ (IsZero(earliest) /\ IsZero(latest)) => rejected = <<>>

\* all events have been filtered with earliest = T1 and latest = T2, and the
\* events at both bounds were accepted
C10_Witness ==
    /\ pending = <<>>
    /\ earliest = FilterTime(1)
    /\ latest = FilterTime(2)
    /\ TimesOf(accepted) = {FilterTime(1), FilterTime(2)}
    /\ Len(rejected) >= 3


\* C17: once the scanner's stored error is set, no later call of Scan returns
\* true or reads a line, and the stored error is never replaced.
C17_ErrorIsTerminal ==
    [][es.error # nil => /\ rets'[Len(rets')] = FALSE
                         /\ scanner'.pos = scanner.pos
                         /\ es'.error = es.error]_vars

\* C18: an emitted event has the zero time or the error "event with no time
\* set" only if no timestamp line precedes its line; an event whose line
\* follows a timestamp line has a non-zero time and has been classified.
C18_NoTimeOnlyBeforeTimestamps ==
    \A j \in 1..Len(emitted) :
        (\E h \in 1..(emitted[j].LineNumber - 1) : IsTimestampLine(scanner.lines[h]))
        => /\ ~IsZero(emitted[j].Time)
           /\ emitted[j].Error # "event with no time set"
           /\ emitted[j].Name # ""

\* the errors that belong to one event
EventErrors ==
    {"event with no time set", "unrecognized event",
     "missing expected separator ':'", "invalid syntax"}

\* C19: an event with an error of its own is returned like any other: Scan
\* returns true for it, leaves the stored error as it was and the scan not
\* done, and the next call goes on with the next physical line.  Scan returns
\* false only at the end of the input or for an unknown value action.
C19_EventErrorsDoNotStop ==
    /\ [](Len(rets) > 0 /\ ~Returned(TRUE)
            => es.done \/ (matched.eform # "" /\ matched.eform \notin ValueActions))
    /\ [][(rets' # rets /\ rets'[Len(rets')] /\ es'.event.Error # nil)
            => /\ es'.event.Error \in EventErrors
               /\ es'.error = es.error
               /\ ~es'.done]_vars
    /\ [][(rets' # rets /\ Returned(TRUE) /\ es.event.Error # nil)
            => /\ es'.i = scanner'.pos
               /\ scanner.pos < Len(scanner.lines) => scanner'.pos > scanner.pos
               /\ rets'[Len(rets')] => es'.event.LineNumber > es.event.LineNumber]_vars

\* two events with errors of their own were returned from consecutive lines
\* after a timestamp,
\* and nothing is stored as the scanner's error
C19_Witness ==
    /\ Len(emitted) = 2
    /\ emitted[1].Error = "missing expected separator ':'"
    /\ emitted[2].Error = "unrecognized event"
    /\ emitted[2].LineNumber = 3
    /\ es.error = nil
    /\ ~es.done


(***************************************************************************)
(* Vocabulary of the writer's properties.                                   *)
(***************************************************************************)
\* the fields of a row: the texts between its delimiters
RECURSIVE Fields(_)
Fields(row) ==
    LET k == IndexOf(row, Delim) IN
    IF k = 0 THEN <<row>>
    ELSE <<SubSeq(row, 1, k - 1)>> \o Fields(SubSeq(row, k + 1, Len(row)))

\* EventText has run and returned a row
Rendered == render.pc = "done" /\ render.event.Error = nil /\ render.out.err = nil

\* the type of the column named after the event being rendered
ColumnType == tsdw.Types[tsdw.coli[render.event.Name] + 1]

\* C11: UnhandledToNote applied to an unhandled event returns an event named
\* "note" of type "text" whose value is the input's raw line, with the line,
\* line number and time of the input and no error.
C11_UnhandledToNote ==
    (render.from.Name = "unhandled" /\ render.event # render.from)
    => /\ render.event.Name = "note"
       /\ render.event.Type = "text"
       /\ render.event.Value = TextValue(render.from.Line)
       /\ render.event.Line = render.from.Line
       /\ render.event.LineNumber = render.from.LineNumber
       /\ render.event.Time = render.from.Time
       /\ render.event.Error = nil

\* an unhandled event with its error has been converted
C11_Witness ==
    /\ render.from.Name = "unhandled"
    /\ render.from.Error = "unrecognized event"
    /\ render.from.Line = "junk"
    /\ render.event.Name = "note"

\* C13 as stated: every row EventText returns has as many delimiter-separated
\* fields as the writer has columns.
C13_FieldCount ==
    Rendered => Len(Fields(render.out.text)) = Len(tsdw.Headers)

\* The same for the events whose column is text-typed or whose value is not a
\* string: the row has as many fields as the writer has columns, and a string
\* in a text column is written with each delimiter replaced by a space.
C13_FieldCountTextColumns ==
    (Rendered /\ (ColumnType = "text" \/ render.event.Value.kind # "text"))
    => /\ Len(Fields(render.out.text)) = Len(tsdw.Headers)
       /\ (ColumnType = "text" /\ render.event.Value.kind = "text")
            => Fields(render.out.text)[tsdw.coli[render.event.Name] + 1]
                 = ReplaceAll(render.event.Value.s, Delim, " ")

\* a string holding a delimiter has been rendered in a text column
C13_Witness ==
    /\ Rendered
    /\ ColumnType = "text"
    /\ render.event.Value = TextValue("a\tb")
    /\ Fields(render.out.text)[tsdw.coli[render.event.Name] + 1] = "a b"

\* C14: for an event without error whose column is boolean-typed and whose
\* value is not a boolean, EventText returns a render error and no row.
C14_BadBoolean ==
    (/\ render.pc = "done"
     /\ render.event.Error = nil
     /\ render.event.Name \in DOMAIN tsdw.coli
     /\ ColumnType = "boolean"
     /\ render.event.Value.kind # "bool")
    => render.out.err # nil /\ render.out.text = ""

\* a string has been given to a boolean column
C14_Witness ==
    /\ render.pc = "done"
    /\ render.event.Name = "valve"
    /\ render.event.Error = nil
    /\ render.event.Value = TextValue("x")
    /\ render.out.err = "bad boolean value"

\* C15: a writer built from a table has the columns "time" and then every
\* definition name once, in strictly ascending order; coli is injective and
\* maps every column name to its position.
C15_Columns ==
    render.pc \in {"event", "done"}
    => /\ Len(tsdw.Headers) = Cardinality(DOMAIN defs) + 1
       /\ tsdw.Headers[1] = "time"
       /\ {tsdw.Headers[i] : i \in 2..Len(tsdw.Headers)} = DOMAIN defs
       /\ \A i \in 2..(Len(tsdw.Headers) - 1) :
            StrLess(tsdw.Headers[i], tsdw.Headers[i + 1])
       /\ DOMAIN tsdw.coli = {tsdw.Headers[i] : i \in 1..Len(tsdw.Headers)}
       /\ \A n \in DOMAIN tsdw.coli : tsdw.Headers[tsdw.coli[n] + 1] = n
       /\ \A n, m \in DOMAIN tsdw.coli : tsdw.coli[n] = tsdw.coli[m] => n = m

\* the writer of a table whose names begin with capitals and small letters
C15_Witness ==
    /\ render.pc = "event"
    /\ defs = MixedDefs
    /\ tsdw.Headers = <<"time", "PMT1", "comment", "gain", "note", "valve">>
    /\ tsdw.coli["PMT1"] = 1
    /\ tsdw.coli["valve"] = 5

\* what the column of an event holds in its row
FieldOf(event, type) ==
    IF type = "boolean" THEN (IF event.Value.b THEN "TRUE" ELSE "FALSE")
    ELSE IF type = "text" THEN ReplaceAll(Sprintf(event.Value), Delim, " ")
    ELSE Sprintf(event.Value)

\* C20: a row EventText returns for an event without error starts with the
\* event's time as an RFC3339 date-time with numeric offset, and every other
\* field is the not-applicable marker except the field of the column named
\* after the event, which is the rendered value (TRUE or FALSE for a boolean).
C20_Row ==
    Rendered
    => LET row == render.out.text
           stamp == SubSeq(row, 1, 25)
       IN  /\ ParseRFC3339(stamp).ok
           /\ ParseRFC3339(stamp).t = render.event.Time
           /\ row = Join([k \in 1..Len(tsdw.Headers) |->
                            IF k = 1 THEN stamp
                            ELSE IF tsdw.Headers[k] = render.event.Name
                            THEN FieldOf(render.event, tsdw.Types[k])
                            ELSE NA], Delim)

\* a boolean event read west of Greenwich has been rendered
C20_Witness ==
    /\ Rendered
    /\ defs = MixedDefs
    /\ render.event.Name = "valve"
    /\ render.out.text = "2015-12-31T23:59:59-07:30\tNA\tNA\tNA\tNA\tFALSE"

(***************************************************************************)
(* Vocabulary of the command's properties.                                  *)
(***************************************************************************)
\* the records of the events a row was written for, in order
Wrote == SelectSeq(main.seen, LAMBDA r : r.wrote)

\* the log holds a report about the line of a scanned event
Reported(event) ==
    \E j \in 1..Len(main.log) :
        /\ main.log[j].LineNumber = event.LineNumber
        /\ main.log[j].Line = event.Line

\* the Action has returned, and not because a write failed
Finished == main.pc = "done" /\ main.err # "write error"

\* C12: an event whose error is set produces no row.  EventText returns the
\* empty text and no render error for it, whether or not its name is a column,
\* and the loop writes nothing for an event whose error is still set after the
\* conversion of unhandled events: the output is the header and then the rows
\* of events without error.
C12_ErrorsWriteNothing ==
    /\ \A k \in 1..Len(main.seen) :
        /\ main.seen[k].scanned.Error # nil
            => EventText(tsdw, main.seen[k].scanned) = NoText
        /\ main.seen[k].event.Error # nil
            => EventText(tsdw, main.seen[k].event) = NoText /\ ~main.seen[k].wrote
    /\ \A k \in 1..Len(Wrote) : Wrote[k].event.Error = nil
    /\ main.out # <<>>
        => Tail(main.out) = [k \in 1..Len(Wrote) |-> EventText(tsdw, Wrote[k].event).text]

\* an event with an error and the name of a column was passed over, and the
\* event after it was written
C12_Witness ==
    /\ Len(main.seen) = 2
    /\ main.seen[1].event.Error = "missing expected separator ':'"
    /\ main.seen[1].event.Name \in DOMAIN tsdw.coli
    /\ main.seen[2].wrote
    /\ Len(main.out) = 2

\* C16 as stated: unless the log is silenced every scanned event that has an
\* error or is unhandled is reported; the loop ends only when Scan returns
\* false (or a write fails), with every line read and every event Scan
\* returned handled; and every event that can be rendered gets its row.
C16_Reported ==
    /\ \A k \in 1..Len(main.seen) :
        (/\ ~main.quiet
         /\ main.seen[k].scanned.Error # nil \/ main.seen[k].scanned.Name = "unhandled")
        => Reported(main.seen[k].scanned)
    /\ Finished => /\ es.done
                   /\ scanner.pos = Len(scanner.lines)
                   /\ Len(main.seen) = Len(emitted)
    /\ \A k \in 1..Len(main.seen) :
        (/\ main.seen[k].passed
         /\ main.seen[k].event.Error = nil
         /\ EventText(tsdw, main.seen[k].event).err = nil)
        => main.seen[k].wrote \/ (main.err = "write error" /\ k = Len(main.seen))

\* C16, for the events inside the time window: unless the log is silenced
\* every scanned event that passes TimeFilter and has an error or is unhandled
\* is reported; the rest as stated.
C16_ReportedInWindow ==
    /\ \A k \in 1..Len(main.seen) :
        (/\ ~main.quiet
         /\ main.seen[k].passed
         /\ main.seen[k].scanned.Error # nil \/ main.seen[k].scanned.Name = "unhandled")
        => Reported(main.seen[k].scanned)
    /\ Finished => /\ es.done
                   /\ scanner.pos = Len(scanner.lines)
                   /\ Len(main.seen) = Len(emitted)
    /\ \A k \in 1..Len(main.seen) :
        (/\ main.seen[k].passed
         /\ main.seen[k].event.Error = nil
         /\ EventText(tsdw, main.seen[k].event).err = nil)
        => main.seen[k].wrote \/ (main.err = "write error" /\ k = Len(main.seen))

\* a line with a missing separator and a line no column takes were reported,
\* and the Action went on to the end of the input
C16_Witness ==
    /\ Finished
    /\ ~main.quiet
    /\ Len(main.seen) = 2
    /\ main.seen[1].scanned.Error = "missing expected separator ':'"
    /\ main.seen[2].scanned.Line = "Valve: x"
    /\ EventText(tsdw, main.seen[2].event).err # nil
    /\ Len(main.log) >= 2
    /\ Reported(main.seen[1].scanned)
    /\ Reported(main.seen[2].scanned)

\* C21: with the writer built from the table the scanner uses, EventText
\* never fails with "column not found" for an event Scan returned without
\* error; it fails so only for an event without error whose name is no
\* definition name, the note UnhandledToNote makes when the table defines no
\* "note".
C21_ColumnNotFound ==
    \A k \in 1..Len(main.seen) :
        /\ main.seen[k].scanned.Error = nil
            => /\ main.seen[k].scanned.Name \in DOMAIN defs
               /\ EventText(tsdw, main.seen[k].scanned).err
                    # "TSDATA column index not found"
        /\ EventText(tsdw, main.seen[k].event).err = "TSDATA column index not found"
            => /\ main.seen[k].event.Error = nil
               /\ main.seen[k].event.Name \notin DOMAIN defs
               /\ main.seen[k].scanned.Name = "unhandled"
               /\ main.seen[k].event = UnhandledToNote(main.seen[k].scanned)
               /\ "note" \notin DOMAIN defs

\* an event without error got its row, and the note made of the next line
\* found no column
C21_Witness ==
    /\ Len(main.seen) = 2
    /\ main.seen[1].scanned.Error = nil
    /\ main.seen[1].wrote
    /\ main.seen[2].event.Name = "note"
    /\ EventText(tsdw, main.seen[2].event).err = "TSDATA column index not found"

\* C22: the header is written before any row, and the rows are written in the
\* order of their source lines: what was written only grows at its end, and
\* the events behind successive rows have strictly increasing line numbers.
C22_OrderPreserved ==
    /\ [](main.seen # <<>> => main.out # <<>>)
    /\ [](main.out # <<>>
            => /\ main.out[1] = HeaderText(tsdw)
               /\ Len(main.out) = 1 + Len(Wrote)
               /\ \A k \in 1..Len(Wrote) :
                    main.out[k + 1] = EventText(tsdw, Wrote[k].event).text
               /\ \A k \in 1..(Len(Wrote) - 1) :
                    Wrote[k].event.LineNumber < Wrote[k + 1].event.LineNumber)
    /\ [][main.out # <<>>
            => /\ Len(main'.out) >= Len(main.out)
               /\ SubSeq(main'.out, 1, Len(main.out)) = main.out]_vars

\* two different rows were written after the header
C22_Witness ==
    /\ Len(main.out) = 3
    /\ main.out[2] # main.out[3]
    /\ Len(Wrote) = 2
    /\ Wrote[1].event.LineNumber = 2
    /\ Wrote[2].event.LineNumber = 3

\* the forms of different definitions have disjoint prefixes: none is a
\* prefix of another
DisjointPrefixes(table) ==
    \A n, m \in DOMAIN table :
        n # m => \A j \in 1..Len(table[n].EventForms), k \in 1..Len(table[m].EventForms) :
                    ~HasPrefix(table[n].EventForms[j].StartsWith,
                               table[m].EventForms[k].StartsWith)

\* C23: under a table with disjoint prefixes CreateEvent has one result for a
\* line, time and line number whatever the order in which the map is ranged
\* over, and a call of Scan has one outcome for the events: the value it
\* returns and the event it leaves.
C23_Deterministic ==
    DisjointPrefixes(defs)
    => /\ \A i \in 1..Len(scanner.lines) : \A tm \in {ZeroTime, es.t} :
            Cardinality(CreateEvent(scanner.lines[i], tm, i, defs)) = 1
       /\ Cardinality({<<o.ret, o.es.event, o.es.t, o.es.i, o.scanner.pos>> :
                            o \in ScanCall(es, scanner, defs)}) = 1

\* under the table with disjoint prefixes a line was classified and decoded
\* and the next line found no form
C23_Witness ==
    /\ DisjointPrefixes(defs)
    /\ Len(emitted) = 2
    /\ emitted[1].Name = "PMT1"
    /\ emitted[1].Error = nil
    /\ emitted[2].Name = "unhandled"

\* C24: a Scan that returns true has consumed at least one more line, so the
\* calls that return true are at most as many as the lines, the first call to
\* return false is at most call number (lines + 1), the events are at most as
\* many as the lines read, and the scan of a finite input comes to its end.
C24_Terminates ==
    /\ [][(rets' # rets /\ rets'[Len(rets')]) => scanner'.pos > scanner.pos]_vars
    /\ [](/\ scanner.pos <= Len(scanner.lines)
          /\ Len(emitted) <= scanner.pos
          /\ \A k \in 1..Len(rets) : rets[k] => k <= Len(scanner.lines))
    /\ <>(Len(rets) > 0 /\ ~rets[Len(rets)])
    /\ <>[](es.done)

\* every line of the input gave an event, and the call after them ended the
\* scan
C24_Witness ==
    /\ Len(scanner.lines) = MaxLines
    /\ Len(emitted) = MaxLines
    /\ Len(rets) = MaxLines + 1
    /\ ~rets[Len(rets)]
    /\ es.done

=============================================================================
